---- MODULE Spec2Model ----
(***************************************************************************)
(* Model of propositions/operators.py: the five syntactic conversions of   *)
(* a propositional formula to a restricted set of operators.               *)
(*                                                                         *)
(* A formula is a tuple whose first component is its root:                 *)
(*   <<root>>                a variable or a constant                      *)
(*   <<root, first>>         a unary application                           *)
(*   <<root, first, second>> a binary application                          *)
(* A call that ends with an exception yields <<"raise", <<kind>>, <<msg>>>> *)
(* in place of a formula.                                                  *)
(***************************************************************************)
EXTENDS Naturals, Sequences, FiniteSets, TLC

\* Largest number of nodes of an input formula.
MaxNodes == 5

\* The variable names the inputs are drawn from; "p" is the name that
\* to_not_and_or falls back to.
VariableNames == {"p", "q"}

Constants == {"T", "F"}

BinaryOperators == {"&", "|", "->", "+", "<->", "-&", "-|"}

\* A root symbol that none of the classifiers accepts.  The trees that carry
\* it carry it at a node with two operands.
UnknownOperators == {"^"}

VARIABLES arg,      \* the formula handed to the conversion
          debug,    \* TRUE iff the interpreter executes assert statements
          pc,       \* "ready", "done" or "reapplied"
          fn,       \* the conversion that was called
          out,      \* what the call returned or raised
          again     \* to_not_and_or applied to its own result

vars == <<arg, debug, pc, fn, out, again>>

None == <<"None">>

----------------------------------------------------------------------------
(* propositions/syntax.py and propositions/semantics.py *)

is_variable(string) == string \in VariableNames

is_constant(string) == string \in Constants

is_unary(string) == string = "~"

is_binary(string) == string \in BinaryOperators

RECURSIVE variables(_)
variables(formula) ==
    IF is_variable(formula[1]) THEN {formula[1]}
    ELSE IF Len(formula) = 1 THEN {}
    ELSE IF Len(formula) = 2 THEN variables(formula[2])
    ELSE variables(formula[2]) \cup variables(formula[3])

\* evaluate requires the model to assign every variable of the formula.
evaluate_defined(formula, model) == variables(formula) \subseteq DOMAIN model

RECURSIVE evaluate(_, _)
evaluate(formula, model) ==
    LET root == formula[1]
        a == evaluate(formula[2], model)
        b == evaluate(formula[3], model)
    IN  IF is_variable(root) THEN model[root]
        ELSE IF root = "T" THEN TRUE
        ELSE IF root = "F" THEN FALSE
        ELSE IF is_unary(root) THEN ~a
        ELSE IF root = "&" THEN a /\ b
        ELSE IF root = "|" THEN a \/ b
        ELSE IF root = "->" THEN (~a) \/ b
        ELSE IF root = "+" THEN a # b
        ELSE IF root = "<->" THEN a = b
        ELSE IF root = "-&" THEN ~(a /\ b)
        ELSE ~(a \/ b)

----------------------------------------------------------------------------
(* Exceptions *)

Raise(kind, msg) == <<"raise", <<kind>>, <<msg>>>>

Raised(result) == result[1] = "raise"

----------------------------------------------------------------------------
(* to_not_and_or *)

\* Mutant: the replacements of T and F exchanged.
to_not_and_or_constant_swapped(formula) ==
    LET vs == variables(formula)
        var == IF vs = {} THEN "p" ELSE CHOOSE v \in vs : TRUE
    IN  IF formula[1] = "T"
        THEN <<"&", <<var>>, <<"~", <<var>>>>>>
        ELSE <<"|", <<var>>, <<"~", <<var>>>>>>

\* The replacement of a constant node.  formula is the constant node itself.
to_not_and_or_constant(formula) ==
    LET vs == variables(formula)
        var == IF vs = {} THEN "p" ELSE CHOOSE v \in vs : TRUE
    IN  IF formula[1] = "T"
        THEN <<"|", <<var>>, <<"~", <<var>>>>>>
        ELSE <<"&", <<var>>, <<"~", <<var>>>>>>

\* The combination as written, for the mutants below to differ from on one root.
to_not_and_or_binary_as_written(root, left, right) ==
    IF root = "&" THEN <<"&", left, right>>
    ELSE IF root = "|" THEN <<"|", left, right>>
    ELSE IF root = "->" THEN <<"|", <<"~", left>>, right>>
    ELSE IF root = "+" THEN
        <<"|", <<"&", left, <<"~", right>>>>, <<"&", <<"~", left>>, right>>>>
    ELSE IF root = "<->" THEN
        <<"|", <<"&", left, right>>, <<"&", <<"~", left>>, <<"~", right>>>>>>
    ELSE IF root = "-&" THEN <<"~", <<"&", left, right>>>>
    ELSE IF root = "-|" THEN <<"~", <<"|", left, right>>>>
    ELSE Raise("ValueError", "Unknown operator: " \o root)

\* Mutant: '+' combined as '<->' is.
to_not_and_or_binary_xor_as_iff(root, left, right) ==
    IF root = "+"
    THEN <<"|", <<"&", left, right>>, <<"&", <<"~", left>>, <<"~", right>>>>>>
    ELSE to_not_and_or_binary_as_written(root, left, right)

\* Mutant: '->' kept, with the converted operands.
to_not_and_or_binary_keeps_implies(root, left, right) ==
    IF root = "->" THEN <<"->", left, right>>
    ELSE to_not_and_or_binary_as_written(root, left, right)

\* Mutant: '->' with no way through: its case is missing.
to_not_and_or_binary_no_implies(root, left, right) ==
    IF root = "->" THEN Raise("ValueError", "Unknown operator: " \o root)
    ELSE to_not_and_or_binary_as_written(root, left, right)

\* Mutant: '-|' combined as '-&' is.
to_not_and_or_binary_nor_as_nand(root, left, right) ==
    IF root = "-|" THEN <<"~", <<"&", left, right>>>>
    ELSE to_not_and_or_binary_as_written(root, left, right)

\* Mutant: '|' rewritten by De Morgan's law instead of kept.
to_not_and_or_binary_or_by_de_morgan(root, left, right) ==
    IF root = "|" THEN <<"~", <<"&", <<"~", left>>, <<"~", right>>>>>>
    ELSE to_not_and_or_binary_as_written(root, left, right)

\* The combination of the converted operands of a binary node.
to_not_and_or_binary(root, left, right) ==
    IF root = "&" THEN <<"&", left, right>>
    ELSE IF root = "|" THEN <<"|", left, right>>
    ELSE IF root = "->" THEN <<"|", <<"~", left>>, right>>
    ELSE IF root = "+" THEN
        <<"|", <<"&", left, <<"~", right>>>>, <<"&", <<"~", left>>, right>>>>
    ELSE IF root = "<->" THEN
        <<"|", <<"&", left, right>>, <<"&", <<"~", left>>, <<"~", right>>>>>>
    ELSE IF root = "-&" THEN <<"~", <<"&", left, right>>>>
    ELSE IF root = "-|" THEN <<"~", <<"|", left, right>>>>
    ELSE Raise("ValueError", "Unknown operator: " \o root)

RECURSIVE to_not_and_or(_)
to_not_and_or(formula) ==
    IF is_variable(formula[1]) THEN formula
    ELSE IF is_constant(formula[1]) THEN to_not_and_or_constant(formula)
    ELSE IF is_unary(formula[1]) THEN
        LET first == to_not_and_or(formula[2])
        IN  IF Raised(first) THEN first ELSE <<"~", first>>
    ELSE IF debug /\ ~is_binary(formula[1]) THEN Raise("AssertionError", "")
    ELSE
        LET left == to_not_and_or(formula[2])
        IN  IF Raised(left) THEN left
            ELSE LET right == to_not_and_or(formula[3])
                 IN  IF Raised(right) THEN right
                     ELSE to_not_and_or_binary(formula[1], left, right)

----------------------------------------------------------------------------
(* to_not_and *)

RECURSIVE to_not_and_convert(_)
to_not_and_convert(f) ==
    IF is_variable(f[1]) THEN f
    ELSE IF is_unary(f[1]) THEN
        LET a == to_not_and_convert(f[2])
        IN  IF Raised(a) THEN a ELSE <<"~", a>>
    ELSE IF f[1] = "&" THEN
        LET a == to_not_and_convert(f[2])
        IN  IF Raised(a) THEN a
            ELSE LET b == to_not_and_convert(f[3])
                 IN  IF Raised(b) THEN b ELSE <<"&", a, b>>
    ELSE IF f[1] = "|" THEN
        LET a == to_not_and_convert(f[2])
        IN  IF Raised(a) THEN a
            ELSE LET b == to_not_and_convert(f[3])
                 IN  IF Raised(b) THEN b
                     ELSE <<"~", <<"&", <<"~", a>>, <<"~", b>>>>>>
    ELSE Raise("ValueError", "Unexpected operator: " \o f[1])

to_not_and(formula) ==
    LET reduced == to_not_and_or(formula)
    IN  IF Raised(reduced) THEN reduced ELSE to_not_and_convert(reduced)

----------------------------------------------------------------------------
(* to_nand *)

RECURSIVE to_nand_convert(_)

\* Mutant: (a&b) rewritten to the single nand (a' -& b').
to_nand_convert_and_as_nand(f) ==
    IF is_variable(f[1]) THEN f
    ELSE IF is_unary(f[1]) THEN
        LET a == to_nand_convert(f[2])
        IN  IF Raised(a) THEN a ELSE <<"-&", a, a>>
    ELSE IF f[1] = "&" THEN
        LET a == to_nand_convert(f[2])
        IN  IF Raised(a) THEN a
            ELSE LET b == to_nand_convert(f[3])
                 IN  IF Raised(b) THEN b ELSE <<"-&", a, b>>
    ELSE IF f[1] = "|" THEN
        LET a == to_nand_convert(f[2])
        IN  IF Raised(a) THEN a
            ELSE LET b == to_nand_convert(f[3])
                 IN  IF Raised(b) THEN b
                     ELSE <<"-&", <<"-&", a, a>>, <<"-&", b, b>>>>
    ELSE Raise("ValueError", "Unexpected operator: " \o f[1])

to_nand_convert(f) ==
    IF is_variable(f[1]) THEN f
    ELSE IF is_unary(f[1]) THEN
        LET a == to_nand_convert(f[2])
        IN  IF Raised(a) THEN a ELSE <<"-&", a, a>>
    ELSE IF f[1] = "&" THEN
        LET a == to_nand_convert(f[2])
        IN  IF Raised(a) THEN a
            ELSE LET b == to_nand_convert(f[3])
                 IN  IF Raised(b) THEN b
                     ELSE LET nand == <<"-&", a, b>>
                          IN  <<"-&", nand, nand>>
    ELSE IF f[1] = "|" THEN
        LET a == to_nand_convert(f[2])
        IN  IF Raised(a) THEN a
            ELSE LET b == to_nand_convert(f[3])
                 IN  IF Raised(b) THEN b
                     ELSE <<"-&", <<"-&", a, a>>, <<"-&", b, b>>>>
    ELSE Raise("ValueError", "Unexpected operator: " \o f[1])

to_nand(formula) ==
    LET reduced == to_not_and_or(formula)
    IN  IF Raised(reduced) THEN reduced ELSE to_nand_convert(reduced)

----------------------------------------------------------------------------
(* to_implies_not *)

RECURSIVE to_implies_not_convert(_)
to_implies_not_convert(f) ==
    IF is_variable(f[1]) THEN f
    ELSE IF is_unary(f[1]) THEN
        LET a == to_implies_not_convert(f[2])
        IN  IF Raised(a) THEN a ELSE <<"~", a>>
    ELSE IF f[1] = "|" THEN
        LET a == to_implies_not_convert(f[2])
        IN  IF Raised(a) THEN a
            ELSE LET b == to_implies_not_convert(f[3])
                 IN  IF Raised(b) THEN b ELSE <<"->", <<"~", a>>, b>>
    ELSE IF f[1] = "&" THEN
        LET a == to_implies_not_convert(f[2])
        IN  IF Raised(a) THEN a
            ELSE LET b == to_implies_not_convert(f[3])
                 IN  IF Raised(b) THEN b
                     ELSE <<"~", <<"->", a, <<"~", b>>>>>>
    ELSE Raise("ValueError", "Unexpected operator: " \o f[1])

to_implies_not(formula) ==
    LET reduced == to_not_and_or(formula)
    IN  IF Raised(reduced) THEN reduced ELSE to_implies_not_convert(reduced)

----------------------------------------------------------------------------
(* to_implies_false *)

RECURSIVE to_implies_false_convert(_)

\* Mutant: ~a rewritten to (F -> a'), the operands exchanged.
to_implies_false_convert_operands_exchanged(f) ==
    IF is_variable(f[1]) THEN f
    ELSE IF is_constant(f[1]) THEN
        IF f[1] = "F" THEN f ELSE <<"->", <<"F">>, <<"F">>>>
    ELSE IF is_unary(f[1]) THEN
        LET a == to_implies_false_convert(f[2])
        IN  IF Raised(a) THEN a ELSE <<"->", <<"F">>, a>>
    ELSE IF f[1] = "->" THEN
        LET a == to_implies_false_convert(f[2])
        IN  IF Raised(a) THEN a
            ELSE LET b == to_implies_false_convert(f[3])
                 IN  IF Raised(b) THEN b ELSE <<"->", a, b>>
    ELSE Raise("ValueError", "Unexpected operator: " \o f[1])

to_implies_false_convert(f) ==
    IF is_variable(f[1]) THEN f
    ELSE IF is_constant(f[1]) THEN
        IF f[1] = "F" THEN f ELSE <<"->", <<"F">>, <<"F">>>>
    ELSE IF is_unary(f[1]) THEN
        LET a == to_implies_false_convert(f[2])
        IN  IF Raised(a) THEN a ELSE <<"->", a, <<"F">>>>
    ELSE IF f[1] = "->" THEN
        LET a == to_implies_false_convert(f[2])
        IN  IF Raised(a) THEN a
            ELSE LET b == to_implies_false_convert(f[3])
                 IN  IF Raised(b) THEN b ELSE <<"->", a, b>>
    ELSE Raise("ValueError", "Unexpected operator: " \o f[1])

\* TRUE iff to_implies_false's convert, applied to f, takes its branch for a
\* constant node at some node it visits.
RECURSIVE to_implies_false_constant_branch(_)
to_implies_false_constant_branch(f) ==
    IF is_variable(f[1]) THEN FALSE
    ELSE IF is_constant(f[1]) THEN TRUE
    ELSE IF is_unary(f[1]) THEN to_implies_false_constant_branch(f[2])
    ELSE IF f[1] = "->" THEN
        \/ to_implies_false_constant_branch(f[2])
        \/ (~Raised(to_implies_false_convert(f[2]))
            /\ to_implies_false_constant_branch(f[3]))
    ELSE FALSE

to_implies_false(formula) ==
    LET reduced == to_implies_not(formula)
    IN  IF Raised(reduced) THEN reduced ELSE to_implies_false_convert(reduced)

----------------------------------------------------------------------------
(* Inputs *)

Leaves == {<<s>> : s \in VariableNames \cup Constants}

\* The formulas of exactly n nodes whose binary nodes carry a root of ops.
RECURSIVE FormulasOfSize(_, _)
FormulasOfSize(n, ops) ==
    IF n = 1 THEN Leaves
    ELSE {<<"~", a>> : a \in FormulasOfSize(n - 1, ops)}
         \cup UNION {{<<op, a, b>> : op \in ops,
                                     a \in FormulasOfSize(i, ops),
                                     b \in FormulasOfSize(n - 1 - i, ops)}
                     : i \in 1 .. (n - 2)}

\* arg is a formula of at most MaxNodes nodes whose binary nodes carry a
\* root of ops.
ArgIsFormula(ops) ==
    \E n \in 1 .. MaxNodes :
        \/ n = 1 /\ arg \in Leaves
        \/ n > 1 /\ \E a \in FormulasOfSize(n - 1, ops) : arg = <<"~", a>>
        \/ \E i \in 1 .. (n - 2) :
               \E a \in FormulasOfSize(i, ops), b \in FormulasOfSize(n - 1 - i, ops) :
                   \E op \in ops : arg = <<op, a, b>>

----------------------------------------------------------------------------
(* The calls *)

\* The interpreter executes assert statements unless it is started with -O.
Init ==
    /\ ArgIsFormula(BinaryOperators)
    /\ debug = TRUE
    /\ pc = "ready"
    /\ fn = "None"
    /\ out = None
    /\ again = None

Call_to_not_and_or ==
    /\ pc = "ready"
    /\ out' = to_not_and_or(arg)
    /\ fn' = "to_not_and_or"
    /\ pc' = "done"
    /\ UNCHANGED <<arg, debug, again>>

Call_to_not_and ==
    /\ pc = "ready"
    /\ out' = to_not_and(arg)
    /\ fn' = "to_not_and"
    /\ pc' = "done"
    /\ UNCHANGED <<arg, debug, again>>

Call_to_nand ==
    /\ pc = "ready"
    /\ out' = to_nand(arg)
    /\ fn' = "to_nand"
    /\ pc' = "done"
    /\ UNCHANGED <<arg, debug, again>>

Call_to_implies_not ==
    /\ pc = "ready"
    /\ out' = to_implies_not(arg)
    /\ fn' = "to_implies_not"
    /\ pc' = "done"
    /\ UNCHANGED <<arg, debug, again>>

Call_to_implies_false ==
    /\ pc = "ready"
    /\ out' = to_implies_false(arg)
    /\ fn' = "to_implies_false"
    /\ pc' = "done"
    /\ UNCHANGED <<arg, debug, again>>

\* to_not_and_or called on the formula a call of to_not_and_or returned.
Reapply_to_not_and_or ==
    /\ pc = "done"
    /\ fn = "to_not_and_or"
    /\ ~Raised(out)
    /\ again' = to_not_and_or(out)
    /\ pc' = "reapplied"
    /\ UNCHANGED <<arg, debug, fn, out>>

Next ==
    \/ Call_to_not_and_or
    \/ Call_to_not_and
    \/ Call_to_nand
    \/ Call_to_implies_not
    \/ Call_to_implies_false
    \/ Reapply_to_not_and_or

Spec == Init /\ [][Next]_vars

\* The same calls on trees that may carry a root no classifier accepts.
InitMalformed ==
    /\ ArgIsFormula(BinaryOperators \cup UnknownOperators)
    /\ debug \in BOOLEAN
    /\ pc = "ready"
    /\ fn = "None"
    /\ out = None
    /\ again = None

SpecMalformed == InitMalformed /\ [][Next]_vars

----------------------------------------------------------------------------
(* Vocabulary of the properties *)

\* The root symbols of all nodes of f.
RECURSIVE Roots(_)
Roots(f) ==
    IF Len(f) = 1 THEN {f[1]}
    ELSE IF Len(f) = 2 THEN {f[1]} \cup Roots(f[2])
    ELSE {f[1]} \cup Roots(f[2]) \cup Roots(f[3])

NonVariableRoots(f) == Roots(f) \ VariableNames

\* The number of nodes of f whose root is sym.
RECURSIVE Count(_, _)
Count(f, sym) ==
    (IF f[1] = sym THEN 1 ELSE 0)
    + (IF Len(f) >= 2 THEN Count(f[2], sym) ELSE 0)
    + (IF Len(f) = 3 THEN Count(f[3], sym) ELSE 0)

\* f has the shape of a formula over the known symbols.
RECURSIVE IsFormula(_)
IsFormula(f) ==
    \/ Len(f) = 1 /\ f[1] \in VariableNames \cup Constants
    \/ Len(f) = 2 /\ f[1] = "~" /\ IsFormula(f[2])
    \/ Len(f) = 3 /\ f[1] \in BinaryOperators /\ IsFormula(f[2]) /\ IsFormula(f[3])

\* f and g are defined and take the same value under every assignment to the
\* names in vs.
SameValues(f, g, vs) ==
    \A model \in [vs -> BOOLEAN] :
        /\ evaluate_defined(f, model)
        /\ evaluate_defined(g, model)
        /\ evaluate(f, model) = evaluate(g, model)

Returned == pc = "done"

----------------------------------------------------------------------------
(* C1 *)

\* C1 as stated: each conversion's result takes, under every assignment to
\* the variables of the input, the value the input takes.
C1_EquivalenceOverInputVariables ==
    Returned => /\ ~Raised(out)
                /\ SameValues(arg, out, variables(arg))

\* C1 amended: each conversion's result takes the value the input takes under
\* every assignment to the variables of the input together with those of the
\* result (the input's variables and, when the input has a constant, "p").
C1_EquivalencePreserved ==
    Returned =>
        /\ ~Raised(out)
        /\ LET vs == variables(arg) \cup variables(out)
           IN  /\ vs \subseteq variables(arg) \cup {"p"}
               /\ \A model \in [vs -> BOOLEAN] :
                      evaluate(arg, model) = evaluate(out, model)

C1_Witness ==
    /\ pc = "done"
    /\ fn = "to_implies_false"
    /\ arg = <<"+", <<"q">>, <<"-|", <<"T">>, <<"q">>>>>>
    /\ variables(out) = {"p", "q"}

----------------------------------------------------------------------------
(* C2 *)

\* C2: basis closure.  The roots of the non-variable nodes of the result lie
\* in {~, &, |} for to_not_and_or, {~, &} for to_not_and, {-&} for to_nand,
\* {->, ~} for to_implies_not and {->, F} for to_implies_false.
C2_BasisClosure ==
    Returned =>
        /\ ~Raised(out)
        /\ fn = "to_not_and_or" => NonVariableRoots(out) \subseteq {"~", "&", "|"}
        /\ fn = "to_not_and" => NonVariableRoots(out) \subseteq {"~", "&"}
        /\ fn = "to_nand" => NonVariableRoots(out) \subseteq {"-&"}
        /\ fn = "to_implies_not" => NonVariableRoots(out) \subseteq {"->", "~"}
        /\ fn = "to_implies_false" => NonVariableRoots(out) \subseteq {"->", "F"}

C2_Witness ==
    /\ pc = "done"
    /\ fn = "to_nand"
    /\ arg = <<"<->", <<"F">>, <<"-|", <<"p">>, <<"q">>>>>>
    /\ NonVariableRoots(out) = {"-&"}

----------------------------------------------------------------------------
(* C3 *)

\* C3: when the input of to_not_and_or has at least one variable, every
\* variable of the result (the witnesses of the replaced constants included)
\* occurs in the input.
C3_WitnessFromInput ==
    (pc = "done" /\ fn = "to_not_and_or" /\ variables(arg) # {})
        => /\ ~Raised(out)
           /\ variables(out) \subseteq variables(arg)

----------------------------------------------------------------------------
(* C4 *)

\* C4: to_not_and_or of the lone constant T returns (p|~p), a tautology with
\* no constant node; of the lone constant F it returns (p&~p), a
\* contradiction with no constant node.
C4_LoneConstant ==
    (pc = "done" /\ fn = "to_not_and_or" /\ arg \in {<<"T">>, <<"F">>}) =>
        /\ arg = <<"T">> =>
            /\ out = <<"|", <<"p">>, <<"~", <<"p">>>>>>
            /\ \A model \in [{"p"} -> BOOLEAN] : evaluate(out, model)
        /\ arg = <<"F">> =>
            /\ out = <<"&", <<"p">>, <<"~", <<"p">>>>>>
            /\ \A model \in [{"p"} -> BOOLEAN] : ~evaluate(out, model)
        /\ Roots(out) \cap Constants = {}

C4_Witness ==
    /\ pc = "done"
    /\ fn = "to_not_and_or"
    /\ arg = <<"T">>
    /\ out = <<"|", <<"p">>, <<"~", <<"p">>>>>>

----------------------------------------------------------------------------
(* C5 *)

\* C5: a call on a tree that carries an unknown root ends with the
\* ValueError 'Unknown operator: ...' and with no other error.
C5_UnknownOperatorError ==
    (pc = "done" /\ Roots(arg) \cap UnknownOperators # {})
        => \E op \in UnknownOperators :
               out = Raise("ValueError", "Unknown operator: " \o op)

----------------------------------------------------------------------------
(* C6 *)

\* C6: on a well-formed input each conversion returns a formula; neither
\* 'Unknown operator' nor 'Unexpected operator' (nor any other exception) is
\* raised.
C6_Total ==
    Returned => /\ ~Raised(out)
                /\ IsFormula(out)

C6_Witness ==
    /\ pc = "done"
    /\ fn = "to_implies_not"
    /\ arg = <<"-&", <<"+", <<"p">>, <<"T">>>>, <<"q">>>>
    /\ IsFormula(out)

----------------------------------------------------------------------------
(* C7 *)

\* C7: to_not_and_or returns a variable unchanged, ~a' for ~a, and for a
\* binary node the combination of the converted operands a', b' that the
\* root prescribes; to_not_and_or of (p->q) is (~p|q).
C7_NodeRules ==
    (pc = "done" /\ fn = "to_not_and_or") =>
        LET root == arg[1]
            a == to_not_and_or(arg[2])
            b == to_not_and_or(arg[3])
            na == <<"~", a>>
            nb == <<"~", b>>
        IN  /\ root \in VariableNames => out = arg
            /\ root = "~" => out = na
            /\ root = "&" => out = <<"&", a, b>>
            /\ root = "|" => out = <<"|", a, b>>
            /\ root = "->" => out = <<"|", na, b>>
            /\ root = "+" => out = <<"|", <<"&", a, nb>>, <<"&", na, b>>>>
            /\ root = "<->" => out = <<"|", <<"&", a, b>>, <<"&", na, nb>>>>
            /\ root = "-&" => out = <<"~", <<"&", a, b>>>>
            /\ root = "-|" => out = <<"~", <<"|", a, b>>>>
            /\ arg = <<"->", <<"p">>, <<"q">>>>
                   => out = <<"|", <<"~", <<"p">>>>, <<"q">>>>

C7_Witness ==
    /\ pc = "done"
    /\ fn = "to_not_and_or"
    /\ arg = <<"<->", <<"->", <<"p">>, <<"q">>>>, <<"q">>>>
    /\ out = <<"|", <<"&", <<"|", <<"~", <<"p">>>>, <<"q">>>>, <<"q">>>>,
                    <<"&", <<"~", <<"|", <<"~", <<"p">>>>, <<"q">>>>>>,
                           <<"~", <<"q">>>>>>>>

----------------------------------------------------------------------------
(* C8 *)

\* The second-stage rewrite that C8 describes.
RECURSIVE NandRewrite(_)
NandRewrite(g) ==
    LET a == NandRewrite(g[2])
        b == NandRewrite(g[3])
    IN  CASE g[1] \in VariableNames -> g
          [] g[1] = "~" -> <<"-&", a, a>>
          [] g[1] = "&" -> <<"-&", <<"-&", a, b>>, <<"-&", a, b>>>>
          [] g[1] = "|" -> <<"-&", <<"-&", a, a>>, <<"-&", b, b>>>>

\* C8: to_nand(f) is that rewrite of to_not_and_or(f); to_nand of (p&q) is
\* ((p-&q)-&(p-&q)).
C8_NandRewrite ==
    (pc = "done" /\ fn = "to_nand") =>
        /\ out = NandRewrite(to_not_and_or(arg))
        /\ arg = <<"&", <<"p">>, <<"q">>>>
               => out = <<"-&", <<"-&", <<"p">>, <<"q">>>>,
                                <<"-&", <<"p">>, <<"q">>>>>>

C8_Witness ==
    /\ pc = "done"
    /\ fn = "to_nand"
    /\ arg = <<"&", <<"p">>, <<"q">>>>
    /\ out = <<"-&", <<"-&", <<"p">>, <<"q">>>>, <<"-&", <<"p">>, <<"q">>>>>>

----------------------------------------------------------------------------
(* C9 *)

\* C9: to_not_and_or returns an input over {~, &, |} without constants as it
\* is; applied to its own result it returns that result, which stays within
\* {~, &, |} and takes the values of the original input.
C9_Idempotent ==
    /\ (pc = "done" /\ fn = "to_not_and_or"
            /\ NonVariableRoots(arg) \subseteq {"~", "&", "|"}) => out = arg
    /\ pc = "reapplied" =>
           /\ again = out
           /\ NonVariableRoots(again) \subseteq {"~", "&", "|"}
           /\ \A model \in [variables(arg) \cup variables(again) -> BOOLEAN] :
                  evaluate(arg, model) = evaluate(again, model)

C9_Witness ==
    /\ pc = "reapplied"
    /\ arg = <<"+", <<"p">>, <<"~", <<"F">>>>>>
    /\ again = out
    /\ out # arg

----------------------------------------------------------------------------
(* C10 *)

\* Every F of g is the second operand of a -> node.
RECURSIVE FalseOnlySecondOfImplies(_)
FalseOnlySecondOfImplies(g) ==
    /\ g # <<"F">>
    /\ Len(g) = 2 => FalseOnlySecondOfImplies(g[2])
    /\ Len(g) = 3 =>
           /\ FalseOnlySecondOfImplies(g[2])
           /\ \/ g[1] = "->" /\ g[3] = <<"F">>
              \/ FalseOnlySecondOfImplies(g[3])

\* C10: T never occurs in to_implies_false(f); every F in it is the second
\* operand of a -> node, one for each negation of to_implies_not(f); the
\* branch of the second-stage rewrite for constants is never taken, as
\* to_implies_not(f) has no constant.
C10_NoTrueAndFalseFromNegation ==
    (pc = "done" /\ fn = "to_implies_false") =>
        /\ ~Raised(out)
        /\ "T" \notin Roots(out)
        /\ FalseOnlySecondOfImplies(out)
        /\ Count(out, "F") = Count(to_implies_not(arg), "~")
        /\ Roots(to_implies_not(arg)) \cap Constants = {}
        /\ ~to_implies_false_constant_branch(to_implies_not(arg))

C10_Witness ==
    /\ pc = "done"
    /\ fn = "to_implies_false"
    /\ arg = <<"&", <<"T">>, <<"~", <<"F">>>>>>
    /\ Count(out, "F") > 0

====
